---- MODULE Spec2Model ----
(***************************************************************************)
(* A model of the word-to-markdown converter (main.ts, server.ts).         *)
(*                                                                         *)
(* Strings are sequences of characters.  An ASCII character is the         *)
(* one-character string; any other UTF-16 code unit n is the string        *)
(* "u<n>" with n in decimal ("u160" is U+00A0), and a character outside    *)
(* the basic plane with code point n is "U<n>".                            *)
(*                                                                         *)
(* The module holds five state machines over groups of variables:          *)
(*   Spec, SpecPaths  convert() calls sharing the renderer singleton       *)
(*   SpecDecode       the loop of decodeHtmlEntities                       *)
(*   SpecNorm         convertNumberedListsToBullets + normalizeText        *)
(*   SpecHtml         processHtml: table headers and list bullets          *)
(*   SpecServer       the handlers of POST /raw and POST /api/convert,     *)
(*                    calling convert                                      *)
(***************************************************************************)
EXTENDS Integers, Sequences, FiniteSets, TLC

VARIABLES
    \* ---- convert() calls and the renderer singleton
    turndownServiceInstance, \* the module-level singleton: Null or an instance id
    services,                \* every TurndownService constructed so far, by id
    calls,                   \* per call of convert: its position and what it did
    nodeEnv,                 \* TRUE when the path module is available
    \* ---- decodeHtmlEntities
    html,                    \* the argument
    decoded,                 \* the local `decoded`
    maxIterations,           \* the local `maxIterations`
    hasEntities,             \* the local `hasEntities`
    passes,                  \* loop bodies executed so far
    idlePasses,              \* loop bodies executed after one that changed nothing
    lastPassChanged,         \* whether the latest loop body changed `decoded`
    pcDecode,                \* "start", "loop" or "done"
    \* ---- the text normalizer
    md,                      \* the Markdown given to the normalizer
    normRuns,                \* the results of its successive applications
    bulletRuns,              \* the local `mdWithBullets` of each application
    \* ---- processHtml
    htmlDoc,                 \* the parsed input: its tables
    processedDoc,            \* the tables of the tree processHtml serializes
    htmlLists,               \* the parsed input: its outermost lists
    processedLists,          \* the lists of the tree processHtml serializes
    pcHtml,                  \* "parsed" or "done"
    \* ---- the HTTP server
    requests,                \* per request: its upload, its handler's position,
                             \* the convert call it made and the responses sent
    forwardsRejections       \* TRUE when the router hands a rejected handler
                             \* promise to the default error handler

procVars == <<turndownServiceInstance, services, calls, nodeEnv>>
decVars  == <<html, decoded, maxIterations, hasEntities, passes, idlePasses,
              lastPassChanged, pcDecode>>
normVars == <<md, normRuns, bulletRuns>>
htmlVars == <<htmlDoc, processedDoc, htmlLists, processedLists, pcHtml>>
srvVars  == <<requests, forwardsRejections>>
vars     == <<procVars, decVars, normVars, htmlVars, srvVars>>

Null == 0

(***************************************************************************)
(* Characters and generic string helpers                                   *)
(***************************************************************************)
Digit == {"0", "1", "2", "3", "4", "5", "6", "7", "8", "9"}
HexLetter == {"a", "b", "c", "d", "e", "f", "A", "B", "C", "D", "E", "F"}
LowerCase == {"a", "b", "c", "d", "e", "f", "g", "h", "i", "j", "k", "l", "m",
              "n", "o", "p", "q", "r", "s", "t", "u", "v", "w", "x", "y", "z"}
UpperCase == {"A", "B", "C", "D", "E", "F", "G", "H", "I", "J", "K", "L", "M",
              "N", "O", "P", "Q", "R", "S", "T", "U", "V", "W", "X", "Y", "Z"}
\* the regular expression class \w
WordChar == LowerCase \cup UpperCase \cup Digit \cup {"_"}

RECURSIVE Flatten(_)
Flatten(ss) == IF ss = <<>> THEN <<>> ELSE Head(ss) \o Flatten(Tail(ss))

RECURSIVE SeqsUpTo(_, _)
SeqsUpTo(S, n) ==
    IF n = 0 THEN {<<>>}
    ELSE LET shorter == SeqsUpTo(S, n - 1)
         IN  shorter \cup {Append(s, x) : s \in shorter, x \in S}

Includes(s, c) == \E i \in 1..Len(s) : s[i] = c
Count(s, c) == Cardinality({i \in 1..Len(s) : s[i] = c})

(***************************************************************************)
(* decodeHtmlEntities                                                      *)
(***************************************************************************)
decodeMap ==
    (<<"&", "a", "m", "p", ";">> :> "&") @@
    (<<"&", "q", "u", "o", "t", ";">> :> "\"") @@
    (<<"&", "#", "3", "9", ";">> :> "'") @@
    (<<"&", "#", "x", "2", "7", ";">> :> "'") @@
    (<<"&", "a", "p", "o", "s", ";">> :> "'") @@
    (<<"&", "n", "b", "s", "p", ";">> :> " ") @@
    (<<"&", "c", "o", "p", "y", ";">> :> "u169") @@
    (<<"&", "r", "e", "g", ";">> :> "u174") @@
    (<<"&", "t", "r", "a", "d", "e", ";">> :> "u8482") @@
    (<<"&", "h", "e", "l", "l", "i", "p", ";">> :> "u8230") @@
    (<<"&", "m", "d", "a", "s", "h", ";">> :> "u8212") @@
    (<<"&", "n", "d", "a", "s", "h", ";">> :> "u8211") @@
    (<<"&", "l", "s", "q", "u", "o", ";">> :> "u8216") @@
    (<<"&", "r", "s", "q", "u", "o", ";">> :> "u8217") @@
    (<<"&", "l", "d", "q", "u", "o", ";">> :> "u8220") @@
    (<<"&", "r", "d", "q", "u", "o", ";">> :> "u8221")

TwoTo16 == 65536

DigitValue(c) ==
    CASE c = "0" -> 0 [] c = "1" -> 1 [] c = "2" -> 2 [] c = "3" -> 3
      [] c = "4" -> 4 [] c = "5" -> 5 [] c = "6" -> 6 [] c = "7" -> 7
      [] c = "8" -> 8 [] c = "9" -> 9
      [] c \in {"a", "A"} -> 10 [] c \in {"b", "B"} -> 11
      [] c \in {"c", "C"} -> 12 [] c \in {"d", "D"} -> 13
      [] c \in {"e", "E"} -> 14 [] c \in {"f", "F"} -> 15

\* parseInt(digits, radix) on a non-empty run of digits of that radix.  The
\* number n is kept exactly, as [hi, lo] with n = hi * 2^16 + lo.
RECURSIVE ParseIntFrom(_, _, _, _)
ParseIntFrom(ds, radix, i, acc) ==
    IF i > Len(ds) THEN acc
    ELSE LET low == acc.lo * radix + DigitValue(ds[i])
         IN  ParseIntFrom(ds, radix, i + 1,
                 [hi |-> acc.hi * radix + (low \div TwoTo16),
                  lo |-> low % TwoTo16])

ParseInt(ds, radix) == ParseIntFrom(ds, radix, 1, [hi |-> 0, lo |-> 0])

\* the character that is the UTF-16 code unit u
CodeUnit(u) ==
    CASE u = 32 -> " " [] u = 34 -> "\"" [] u = 35 -> "#" [] u = 38 -> "&"
      [] u = 39 -> "'" [] u = 59 -> ";" [] u = 60 -> "<" [] u = 62 -> ">"
      [] u = 65 -> "A" [] u = 97 -> "a"
      [] OTHER -> "u" \o ToString(u)

\* String.fromCharCode(n): ToUint16(n), the low 16 bits of n
FromCharCode(n) == CodeUnit(n.lo)

\* /[#\w]/
IsEntityChar(c) == c = "#" \/ c \in WordChar

RECURSIVE RunEnd(_, _)
RunEnd(s, k) ==
    IF k <= Len(s) /\ IsEntityChar(s[k]) THEN RunEnd(s, k + 1) ELSE k - 1

\* /&[#\w]+;/ tried at position i: the index of the closing ";" or 0
EntityEnd(s, i) ==
    IF s[i] # "&" THEN 0
    ELSE LET j == RunEnd(s, i + 1)
         IN  IF j >= i + 1 /\ j + 1 <= Len(s) /\ s[j + 1] = ";" THEN j + 1 ELSE 0

AllIn(s, S) == \A i \in 1..Len(s) : s[i] \in S

\* entity.match(/^&#(\d+);$/): the digits, or <<>> when there is no match
NumericMatch(entity) ==
    LET body == SubSeq(entity, 2, Len(entity) - 1)
    IN  IF Len(body) >= 2 /\ body[1] = "#" /\ AllIn(Tail(body), Digit)
        THEN Tail(body) ELSE <<>>

\* entity.match(/^&#x([0-9a-fA-F]+);$/i): the hex digits, or <<>>
HexMatch(entity) ==
    LET body == SubSeq(entity, 2, Len(entity) - 1)
    IN  IF Len(body) >= 3 /\ body[1] = "#" /\ body[2] \in {"x", "X"}
           /\ AllIn(Tail(Tail(body)), Digit \cup HexLetter)
        THEN Tail(Tail(body)) ELSE <<>>

\* the replace callback
ReplaceEntity(entity) ==
    IF entity \in DOMAIN decodeMap THEN <<decodeMap[entity]>>
    ELSE IF NumericMatch(entity) # <<>>
         THEN <<FromCharCode(ParseInt(NumericMatch(entity), 10))>>
    ELSE IF HexMatch(entity) # <<>>
         THEN <<FromCharCode(ParseInt(HexMatch(entity), 16))>>
    ELSE entity

\* decoded.replace(/&[#\w]+;/g, callback), from position i on
RECURSIVE ReplaceEntitiesFrom(_, _)
ReplaceEntitiesFrom(s, i) ==
    IF i > Len(s) THEN <<>>
    ELSE LET e == EntityEnd(s, i)
         IN  IF e = 0 THEN <<s[i]>> \o ReplaceEntitiesFrom(s, i + 1)
             ELSE ReplaceEntity(SubSeq(s, i, e)) \o ReplaceEntitiesFrom(s, e + 1)

ReplaceEntities(s) == ReplaceEntitiesFrom(s, 1)

InitialMaxIterations == 3

InitialHasEntities_Always(s) == TRUE

InitialHasEntities(s) == Includes(s, "&")

NextHasEntities(prev, cur) == cur # prev /\ Includes(cur, "&")

LoopGuard_NoCap(has, iters) == has

LoopGuard(has, iters) == has /\ iters > 0

\* escapeHtml's first replacement, used to build re-encoded inputs
EncodeAmp(s) ==
    Flatten([i \in 1..Len(s) |->
                IF s[i] = "&" THEN <<"&", "a", "m", "p", ";">> ELSE <<s[i]>>])

RECURSIVE EncodeAmpTimes(_, _)
EncodeAmpTimes(s, k) == IF k = 0 THEN s ELSE EncodeAmpTimes(EncodeAmp(s), k - 1)

MaxChunks == 3
MaxEncChunks == 2
MaxNest == 3

DecodeChunks ==
    { <<"&">>, <<"&", "#">>, <<"&", "#", "x">>, <<";">>,
      <<"a", "m", "p", ";">>, <<"l", "t", ";">>,
      <<"6", "0">>, <<"3", "C">>, <<"6", "5", "5", "9", "6">>,
      <<"1", "0", "0", "3", "C">>, <<"<">>, <<"a">> }

\* the strings of at most n chunks, and those of at most e chunks re-encoded
\* up to k times
DecodeInputs(n, e, k) ==
    {Flatten(cs) : cs \in SeqsUpTo(DecodeChunks, n)}
    \cup {EncodeAmpTimes(Flatten(cs), j) :
              cs \in SeqsUpTo(DecodeChunks, e), j \in 0..k}

DecodeIdle ==
    /\ html = <<>>
    /\ decoded = <<>>
    /\ maxIterations = 0
    /\ hasEntities = FALSE
    /\ passes = 0
    /\ idlePasses = 0
    /\ lastPassChanged = TRUE
    /\ pcDecode = "idle"

InitDecode ==
    /\ html \in DecodeInputs(MaxChunks, MaxEncChunks, MaxNest)
    /\ decoded = <<>>
    /\ maxIterations = 0
    /\ hasEntities = FALSE
    /\ passes = 0
    /\ idlePasses = 0
    /\ lastPassChanged = TRUE
    /\ pcDecode = "start"

\* lines 95-97
DecodeStart ==
    /\ pcDecode = "start"
    /\ decoded' = html
    /\ maxIterations' = InitialMaxIterations
    /\ hasEntities' = InitialHasEntities(html)
    /\ pcDecode' = "loop"
    /\ UNCHANGED <<html, passes, idlePasses, lastPassChanged>>

\* one execution of the loop body, lines 99-126
DecodePass ==
    /\ pcDecode = "loop"
    /\ LoopGuard(hasEntities, maxIterations)
    /\ LET prevDecoded == decoded
           cur == ReplaceEntities(decoded)
       IN  /\ decoded' = cur
           /\ hasEntities' = NextHasEntities(prevDecoded, cur)
           /\ lastPassChanged' = (cur # prevDecoded)
    /\ maxIterations' = maxIterations - 1
    /\ passes' = passes + 1
    /\ idlePasses' = IF lastPassChanged THEN idlePasses ELSE idlePasses + 1
    /\ UNCHANGED <<html, pcDecode>>

\* the loop condition fails: line 128
DecodeReturn ==
    /\ pcDecode = "loop"
    /\ ~LoopGuard(hasEntities, maxIterations)
    /\ pcDecode' = "done"
    /\ UNCHANGED <<html, decoded, maxIterations, hasEntities, passes,
                   idlePasses, lastPassChanged>>

NextDecode ==
    \/ DecodeStart /\ UNCHANGED <<procVars, normVars, htmlVars, srvVars>>
    \/ DecodePass /\ UNCHANGED <<procVars, normVars, htmlVars, srvVars>>
    \/ DecodeReturn /\ UNCHANGED <<procVars, normVars, htmlVars, srvVars>>

(***************************************************************************)
(* The text normalizer: convertNumberedListsToBullets, normalizeText       *)
(***************************************************************************)
\* the regular expression class \s (WhiteSpace and LineTerminator)
LineTerminator == {"\n", "\r", "u8232", "u8233"}
WhiteSpace ==
    {" ", "\t", "u11", "\f", "u160", "u5760", "u8192", "u8193", "u8194",
     "u8195", "u8196", "u8197", "u8198", "u8199", "u8200", "u8201", "u8202",
     "u8239", "u8287", "u12288", "u65279"}
SpaceChar == WhiteSpace \cup LineTerminator

RECURSIVE ClassRunEnd(_, _, _)
ClassRunEnd(s, k, S) ==
    IF k <= Len(s) /\ s[k] \in S THEN ClassRunEnd(s, k + 1, S) ELSE k - 1

\* ^ under the m flag
AtLineStart(s, i) == i = 1 \/ s[i - 1] \in LineTerminator

\* /^(\s*)(\d+)\.\s/m tried at position i: [ws, end], the last index of group 1
\* and of the match, or end = 0
NumberedListMatch(s, i) ==
    LET w == ClassRunEnd(s, i, SpaceChar)
        d == ClassRunEnd(s, w + 1, Digit)
    IN  IF /\ AtLineStart(s, i)
           /\ d >= w + 1
           /\ d + 2 <= Len(s)
           /\ s[d + 1] = "."
           /\ s[d + 2] \in SpaceChar
        THEN [ws |-> w, end |-> d + 2]
        ELSE [ws |-> 0, end |-> 0]

\* md.replace(numberedListRegex, '$1- '), from position i on
RECURSIVE ReplaceNumberedFrom(_, _)
ReplaceNumberedFrom(s, i) ==
    IF i > Len(s) THEN <<>>
    ELSE LET m == NumberedListMatch(s, i)
         IN  IF m.end = 0 THEN <<s[i]>> \o ReplaceNumberedFrom(s, i + 1)
             ELSE SubSeq(s, i, m.ws) \o <<"-", " ">>
                      \o ReplaceNumberedFrom(s, m.end + 1)

convertNumberedListsToBullets(s) == ReplaceNumberedFrom(s, 1)

nonBreakingSpaceMap ==
    ("u160" :> <<" ">>) @@ ("u8199" :> <<" ">>) @@ ("u8239" :> <<" ">>) @@
    ("u8288" :> <<>>) @@ ("u65279" :> <<>>)

smartQuoteMap ==
    ("u8220" :> <<"\"">>) @@ ("u8221" :> <<"\"">>) @@
    ("u8216" :> <<"'">>) @@ ("u8217" :> <<"'">>) @@
    ("u8211" :> <<"-">>) @@ ("u8212" :> <<"-">>)

\* s.replace(/[<the keys of map>]/g, (char) => map[char])
ReplaceChars(s, map) ==
    Flatten([i \in 1..Len(s) |->
                IF s[i] \in DOMAIN map THEN map[s[i]] ELSE <<s[i]>>])

\* normalizeText without its second replace
normalizeText_SpacesOnly(s) == ReplaceChars(s, nonBreakingSpaceMap)

normalizeText(s) == ReplaceChars(ReplaceChars(s, nonBreakingSpaceMap), smartQuoteMap)

\* convert, lines 277-278
TextNormalizer(s) == normalizeText(convertNumberedListsToBullets(s))

MaxMdLen == 4
MaxRuns == 2

NormAlphabet == {"1", ".", " ", "\n", "x", "u160", "u8288", "u65279", "u8220"}

NormInputs(n) == SeqsUpTo(NormAlphabet, n)

MaxTypoLen == 2

\* every character of nonBreakingSpacesRegex and of smartQuotesRegex, and
\* three that are in neither
TypoAlphabet ==
    {"u160", "u8199", "u8239", "u8288", "u65279",
     "u8220", "u8221", "u8216", "u8217", "u8211", "u8212",
     "a", "\"", "u233"}

TypoInputs(n) == SeqsUpTo(TypoAlphabet, n)

NormIdle ==
    /\ md = <<>>
    /\ normRuns = <<>>
    /\ bulletRuns = <<>>

InitNorm ==
    /\ md \in NormInputs(MaxMdLen) \cup TypoInputs(MaxTypoLen)
    /\ normRuns = <<>>
    /\ bulletRuns = <<>>

\* one application of the normalizer, to the input or to its own latest result
Normalize ==
    /\ Len(normRuns) < MaxRuns
    /\ LET arg == IF normRuns = <<>> THEN md ELSE normRuns[Len(normRuns)]
       IN  /\ bulletRuns' = Append(bulletRuns,
                                   convertNumberedListsToBullets(arg))
           /\ normRuns' = Append(normRuns, TextNormalizer(arg))
    /\ UNCHANGED md

NextNorm == Normalize /\ UNCHANGED <<procVars, decVars, htmlVars, srvVars>>

(***************************************************************************)
(* validateFileExtension                                                   *)
(***************************************************************************)
ToLowerCaseChar(c) ==
    CASE c = "D" -> "d" [] c = "O" -> "o" [] c = "C" -> "c" [] c = "X" -> "x"
      [] c = "A" -> "a" [] OTHER -> c

ToLowerCase(s) == [i \in 1..Len(s) |-> ToLowerCaseChar(s[i])]

\* path.extname (posix): the scan from the end of the path.  st holds the
\* locals of the library's loop.
RECURSIVE ExtNameScan(_, _, _)
ExtNameScan(p, i, st) ==
    IF i < 1 THEN st
    ELSE IF p[i] = "/"
         THEN IF ~st.matchedSlash
              THEN [st EXCEPT !.startPart = i + 1]
              ELSE ExtNameScan(p, i - 1, st)
    ELSE LET st1 == IF st.end = 0
                    THEN [st EXCEPT !.matchedSlash = FALSE, !.end = i + 1]
                    ELSE st
             st2 == IF p[i] = "."
                    THEN IF st1.startDot = 0 THEN [st1 EXCEPT !.startDot = i]
                         ELSE IF st1.preDotState # 1
                              THEN [st1 EXCEPT !.preDotState = 1] ELSE st1
                    ELSE IF st1.startDot # 0
                         THEN [st1 EXCEPT !.preDotState = -1] ELSE st1
         IN  ExtNameScan(p, i - 1, st2)

\* path.extname(p); positions are 1-based and `end` is exclusive, 0 is "unset"
ExtName(p) ==
    LET st == ExtNameScan(p, Len(p),
                  [startDot |-> 0, startPart |-> 1, end |-> 0,
                   matchedSlash |-> TRUE, preDotState |-> 0])
    IN  IF \/ st.startDot = 0
           \/ st.end = 0
           \/ st.preDotState = 0
           \/ (st.preDotState = 1 /\ st.startDot = st.end - 1
                                  /\ st.startDot = st.startPart + 1)
        THEN <<>>
        ELSE SubSeq(p, st.startDot, st.end - 1)

\* filename.lastIndexOf('.'), 1-based, 0 when there is none
LastIndexOf(s, c) ==
    IF Includes(s, c)
    THEN CHOOSE i \in 1..Len(s) : s[i] = c /\ \A j \in (i + 1)..Len(s) : s[j] # c
    ELSE 0

\* the browser branch, lines 58-60
ManualExt(filePath) ==
    LET filename == ToLowerCase(filePath)
        lastDotIndex == LastIndexOf(filename, ".")
    IN  IF lastDotIndex # 0 THEN SubSeq(filename, lastDotIndex, Len(filename))
        ELSE <<>>

\* the local `ext`, lines 54-61
FileExt(filePath, hasPathModule) ==
    IF hasPathModule THEN ToLowerCase(ExtName(filePath)) ELSE ManualExt(filePath)

\* TRUE when validateFileExtension throws UnsupportedFileError
validateFileExtension(filePath, hasPathModule) ==
    FileExt(filePath, hasPathModule) = <<".", "d", "o", "c">>

(***************************************************************************)
(* getTurndownService and convert                                          *)
(***************************************************************************)
\* the keys of the `options.turndown` object; {} when empty or unset
RenderOptions == {{}, {"linkStyle"}}

defaultTurndownOptions == {"headingStyle", "codeBlockStyle", "bulletListMarker"}

\* a constructed TurndownService: its option keys, and whether it was made
\* for the singleton slot
NewService(keys, shared) == [keys |-> keys, shared |-> shared]

GetTurndownService_NoReuse(options, inst, svcs) ==
    [service |-> Len(svcs) + 1,
     instance |-> IF options = {} THEN Len(svcs) + 1 ELSE inst,
     services |-> Append(svcs,
         NewService(options \cup defaultTurndownOptions, options = {}))]

GetTurndownService_CustomCached(options, inst, svcs) ==
    IF inst = Null
    THEN [service |-> Len(svcs) + 1, instance |-> Len(svcs) + 1,
          services |-> Append(svcs,
              NewService(options \cup defaultTurndownOptions, TRUE))]
    ELSE [service |-> inst, instance |-> inst, services |-> svcs]

\* getTurndownService(options) with the singleton slot holding inst:
\* the instance returned, the slot and the instances constructed afterwards
GetTurndownService(options, inst, svcs) ==
    IF Cardinality(options) > 0
    THEN [service |-> Len(svcs) + 1, instance |-> inst,
          services |-> Append(svcs,
              NewService(options \cup defaultTurndownOptions, FALSE))]
    ELSE IF inst = Null
    THEN [service |-> Len(svcs) + 1, instance |-> Len(svcs) + 1,
          services |-> Append(svcs, NewService(defaultTurndownOptions, TRUE))]
    ELSE [service |-> inst, instance |-> inst, services |-> svcs]

\* the calls convert makes after validation, in program order, each with the
\* variable it reads and the variable it assigns (htmlToMd inlined)
ConvertStatements_LintBeforeNormalize ==
    << [fn |-> "mammoth.convertToHtml", reads |-> "inputObj", writes |-> "mammothResult"],
       [fn |-> "processHtml", reads |-> "mammothResult", writes |-> "processedHtml"],
       [fn |-> "decodeHtmlEntities", reads |-> "processedHtml", writes |-> "decodedHtml"],
       [fn |-> "turndown", reads |-> "decodedHtml", writes |-> "md"],
       [fn |-> "convertNumberedListsToBullets", reads |-> "md", writes |-> "mdWithBullets"],
       [fn |-> "lint", reads |-> "mdWithBullets", writes |-> "cleanedMd"],
       [fn |-> "normalizeText", reads |-> "cleanedMd", writes |-> "normalizedMd"] >>

ConvertStatements ==
    << [fn |-> "mammoth.convertToHtml", reads |-> "inputObj", writes |-> "mammothResult"],
       [fn |-> "processHtml", reads |-> "mammothResult", writes |-> "processedHtml"],
       [fn |-> "decodeHtmlEntities", reads |-> "processedHtml", writes |-> "decodedHtml"],
       [fn |-> "turndown", reads |-> "decodedHtml", writes |-> "md"],
       [fn |-> "convertNumberedListsToBullets", reads |-> "md", writes |-> "mdWithBullets"],
       [fn |-> "normalizeText", reads |-> "mdWithBullets", writes |-> "normalizedMd"],
       [fn |-> "lint", reads |-> "normalizedMd", writes |-> "cleanedMd"] >>

\* the variable convert returns, line 280
ConvertReturns == "cleanedMd"

ConvertLocals ==
    {"inputObj", "mammothResult", "processedHtml", "decodedHtml", "md",
     "mdWithBullets", "normalizedMd", "cleanedMd"}

\* the position of getTurndownService in the statements: before turndown
TurndownIndex == CHOOSE i \in 1..Len(ConvertStatements) : ConvertStatements[i].fn = "turndown"

\* Statements i.. are executed on frame fr; the one numbered failAt throws
\* (0: none does).  A value is the sequence of the calls that produced it.
RECURSIVE RunStatements(_, _, _)
RunStatements(i, failAt, fr) ==
    IF i > Len(ConvertStatements) THEN fr
    ELSE LET st == ConvertStatements[i]
             called == [fr EXCEPT !.trace = Append(@,
                            [fn |-> st.fn, consumed |-> fr.locals[st.reads]])]
         IN  IF i = failAt THEN [called EXCEPT !.thrown = st.fn]
             ELSE RunStatements(i + 1, failAt,
                      [called EXCEPT !.locals[st.writes] =
                                         Append(fr.locals[st.reads], st.fn)])

MaxCalls == 2

Calls == 1..MaxCalls

IdleCall ==
    [pc |-> "idle", input |-> [kind |-> "none", path |-> <<>>], options |-> {},
     extracted |-> FALSE, trace |-> <<>>, service |-> Null,
     result |-> "none", markdown |-> <<>>]

InitProc ==
    /\ turndownServiceInstance = Null
    /\ services = <<>>
    /\ calls = [c \in Calls |-> IdleCall]

\* convert up to its await, lines 266-274: validation, then the extraction
\* call is issued and the call suspends
ConvertStart(c, input, options) ==
    /\ calls[c].pc = "idle"
    /\ \A b \in 1..(c - 1) : calls[b].pc # "idle"
    /\ IF input.kind = "path" /\ validateFileExtension(input.path, nodeEnv)
       THEN calls' = [calls EXCEPT ![c] =
                [@ EXCEPT !.pc = "done", !.input = input, !.options = options,
                          !.result = "UnsupportedFileError"]]
       ELSE calls' = [calls EXCEPT ![c] =
                [@ EXCEPT !.pc = "awaiting", !.input = input,
                          !.options = options, !.extracted = TRUE]]
    /\ UNCHANGED <<turndownServiceInstance, services, nodeEnv>>

\* convert from the completion of the await to its end, lines 274-280.
\* failAt = 1: the extraction promise rejects; 2..7: that call throws.
ConvertResume(c, failAt) ==
    /\ calls[c].pc = "awaiting"
    /\ LET fr0 == [locals |-> [v \in ConvertLocals |->
                                  IF v = "inputObj" THEN <<"input">> ELSE <<>>],
                   trace |-> <<>>, thrown |-> "none"]
           fr == RunStatements(1, failAt, fr0)
           rendering == failAt = 0 \/ failAt >= TurndownIndex
           got == GetTurndownService(calls[c].options,
                                     turndownServiceInstance, services)
       IN  /\ calls' = [calls EXCEPT ![c] =
                  [@ EXCEPT !.pc = "done",
                            !.trace = fr.trace,
                            !.service = IF rendering THEN got.service ELSE Null,
                            !.result = IF fr.thrown = "none" THEN "ok"
                                       ELSE fr.thrown,
                            !.markdown = IF fr.thrown = "none"
                                         THEN fr.locals[ConvertReturns]
                                         ELSE <<>>]]
           /\ turndownServiceInstance' =
                  IF rendering THEN got.instance ELSE turndownServiceInstance
           /\ services' = IF rendering THEN got.services ELSE services
    /\ UNCHANGED nodeEnv

BufferInput == [kind |-> "buffer", path |-> <<>>]
PathInput(p) == [kind |-> "path", path |-> p]

FewInputs ==
    {BufferInput, PathInput(<<"a", ".", "d", "o", "c", "x">>),
     PathInput(<<"a", ".", "d", "o", "c">>)}

Next ==
    \/ \E c \in Calls, input \in FewInputs, options \in RenderOptions :
           ConvertStart(c, input, options) /\ UNCHANGED <<decVars, normVars, htmlVars, srvVars>>
    \/ \E c \in Calls, failAt \in 0..Len(ConvertStatements) :
           ConvertResume(c, failAt) /\ UNCHANGED <<decVars, normVars, htmlVars, srvVars>>

MaxPathChunks == 3

PathChunks ==
    { <<"a">>, <<".">>, <<"/">>, <<"d", "o", "c">>, <<"D", "o", "C">>,
      <<".", "d", "o", "c">>, <<"x">> }

PathInputs ==
    {BufferInput} \cup
    {PathInput(Flatten(cs)) : cs \in SeqsUpTo(PathChunks, MaxPathChunks)}

NextPaths ==
    \/ \E input \in PathInputs, options \in RenderOptions :
           ConvertStart(1, input, options) /\ UNCHANGED <<decVars, normVars, htmlVars, srvVars>>
    \/ \E failAt \in 0..Len(ConvertStatements) :
           ConvertResume(1, failAt) /\ UNCHANGED <<decVars, normVars, htmlVars, srvVars>>

(***************************************************************************)
(* processHtml: table header promotion                                     *)
(*                                                                         *)
(* A table is the sequence of its rows in document order, a row the        *)
(* sequence of its cells, a cell its tag and its text content.             *)
(***************************************************************************)
RECURSIVE TrimStart(_)
TrimStart(s) ==
    IF s # <<>> /\ Head(s) \in SpaceChar THEN TrimStart(Tail(s)) ELSE s

RECURSIVE TrimEnd(_)
TrimEnd(s) ==
    IF s # <<>> /\ s[Len(s)] \in SpaceChar
    THEN TrimEnd(SubSeq(s, 1, Len(s) - 1)) ELSE s

\* String.prototype.trim
Trim(s) == TrimEnd(TrimStart(s))

\* row.querySelector('th') finds a cell
HasTh(row) == \E k \in 1..Len(row) : row[k].tag = "th"

\* cells.forEach((cell) => { cell.tagName = 'th' }) over the row's td cells
RetagRow(row) == [k \in 1..Len(row) |-> [row[k] EXCEPT !.tag = "th"]]

\* cells.length === 0 || cells.every((cell) => !cell.textContent?.trim()),
\* cells being the row's td cells
IsEmptyRow(row) ==
    LET cells == {k \in 1..Len(row) : row[k].tag = "td"}
    IN  cells = {} \/ \A k \in cells : Trim(row[k].text) = <<>>

\* the callback without firstRow.remove()
ProcessTable_KeepsBlankRow(table) ==
    IF table = <<>> THEN table
    ELSE LET firstRow == table[1]
         IN  IF HasTh(firstRow) THEN table
             ELSE IF IsEmptyRow(firstRow)
                  THEN IF Len(table) >= 2
                       THEN <<firstRow, RetagRow(table[2])>>
                                \o SubSeq(table, 3, Len(table))
                       ELSE table
                  ELSE <<RetagRow(firstRow)>> \o Tail(table)

\* the callback of root.querySelectorAll('table').forEach, lines 143-170
ProcessTable(table) ==
    IF table = <<>> THEN table
    ELSE LET firstRow == table[1]
         IN  IF HasTh(firstRow) THEN table
             ELSE IF IsEmptyRow(firstRow)
                  THEN LET rest == Tail(table)
                       IN  IF rest # <<>>
                           THEN <<RetagRow(rest[1])>> \o Tail(rest)
                           ELSE rest
                  ELSE <<RetagRow(firstRow)>> \o Tail(table)

MaxCellsPerRow == 1
MaxRows == 3

CellTexts == {<<" ">>, <<"X">>}
Cells == [tag : {"td", "th"}, text : CellTexts]
Rows(n) == SeqsUpTo(Cells, n)
\* a table has at least one row
Tables(n, m) == SeqsUpTo(Rows(n), m) \ {<<>>}

\* documents of one table of at most m rows of at most n cells, and of two
\* tables of one row each
HtmlDocs(n, m) ==
    {<<t>> : t \in Tables(n, m)}
    \cup {<<<<r>>, <<q>>>> : r \in Rows(n), q \in Rows(n)}

(***************************************************************************)
(* processHtml: unicode bullets of list items                              *)
(*                                                                         *)
(* A list is its tag and the sequence of its items; an item is the text    *)
(* its inner markup starts with and the lists nested after that text.  An  *)
(* item is named by its path: <<i, j>> is item j of outermost list i, and  *)
(* <<i, j, k, l>> item l of the k-th list nested in that item.             *)
(***************************************************************************)
unicodeBullets ==
    {"u8226", "u9702", "u9642", "u9643", "u8227", "u8259", "u8729", "u183"}

\* bulletRegex, /^\s*[<unicodeBullets>]\s*/, on s: the last index of the
\* match, or 0
BulletMatch(s) ==
    LET w == ClassRunEnd(s, 1, SpaceChar)
    IN  IF w + 1 <= Len(s) /\ s[w + 1] \in unicodeBullets
        THEN ClassRunEnd(s, w + 2, SpaceChar)
        ELSE 0

\* textContent.replace(bulletRegex, ''), textContent being the innerHTML of
\* an item: the markup of a nested list starts with "<", so that the match
\* lies within the text the item starts with
StripBullet(text) == SubSeq(text, BulletMatch(text) + 1, Len(text))

ItemAt(lists, p) ==
    IF Len(p) = 2 THEN lists[p[1]].items[p[2]]
    ELSE lists[p[1]].items[p[2]].sub[p[3]].items[p[4]]

\* the list an item is a child of
ParentList(lists, p) ==
    IF Len(p) = 2 THEN lists[p[1]]
    ELSE lists[p[1]].items[p[2]].sub[p[3]]

\* every li of the tree, in document order
ItemPaths(lists) ==
    Flatten([i \in 1..Len(lists) |->
        Flatten([j \in 1..Len(lists[i].items) |->
            <<<<i, j>>>> \o
            Flatten([k \in 1..Len(lists[i].items[j].sub) |->
                [l \in 1..Len(lists[i].items[j].sub[k].items) |->
                    <<i, j, k, l>>]])])])

\* the selector 'ul li': the item has a ul among its ancestors
MatchesUlLi(lists, p) ==
    \/ lists[p[1]].tag = "ul"
    \/ Len(p) = 4 /\ lists[p[1]].items[p[2]].sub[p[3]].tag = "ul"

\* root.querySelectorAll('ul li')
SelectUlLi(lists) ==
    SelectSeq(ItemPaths(lists), LAMBDA p : MatchesUlLi(lists, p))

\* the li elements below the item at p
DescendantItems(lists, p) ==
    LET all == ItemPaths(lists)
    IN  {all[n] : n \in {m \in 1..Len(all) :
                           /\ Len(all[m]) > Len(p)
                           /\ SubSeq(all[m], 1, Len(p)) = p}}

\* listItem.innerHTML = cleanedContent: the item's text is replaced, and its
\* children are replaced by the nodes parsed from the markup
SetInnerHtml(lists, p, text) ==
    IF Len(p) = 2
    THEN [lists EXCEPT ![p[1]].items[p[2]].text = text]
    ELSE [lists EXCEPT ![p[1]].items[p[2]].sub[p[3]].items[p[4]].text = text]

\* the forEach of lines 173-180 from the n-th selected element on: tree is
\* the tree under root, detached the selected elements that an earlier
\* assignment to innerHTML replaced by newly parsed nodes.  An assignment to
\* a detached element changes nothing under root.
RECURSIVE StripItems(_, _, _, _)
StripItems(selected, n, tree, detached) ==
    IF n > Len(selected) THEN tree
    ELSE LET p == selected[n]
         IN  IF p \in detached
             THEN StripItems(selected, n + 1, tree, detached)
             ELSE LET textContent == ItemAt(tree, p).text
                      cleanedContent == StripBullet(textContent)
                  IN  IF cleanedContent # textContent
                      THEN StripItems(selected, n + 1,
                               SetInnerHtml(tree, p, cleanedContent),
                               detached \cup DescendantItems(tree, p))
                      ELSE StripItems(selected, n + 1, tree, detached)

\* lines 172-180
ProcessLists(lists) == StripItems(SelectUlLi(lists), 1, lists, {})

MaxItems == 2
MaxSubItems == 1

ItemTexts == {<<"x">>, <<" ", "u8226", " ", "x">>}
ListTags == {"ul", "ol"}
LeafItems == [text : ItemTexts, sub : {<<>>}]
\* a list has at least one item
SubLists(m) == [tag : ListTags, items : SeqsUpTo(LeafItems, m) \ {<<>>}]
Items(m) ==
    LeafItems \cup [text : ItemTexts, sub : {<<l>> : l \in SubLists(m)}]
Lists(n, m) == [tag : ListTags, items : SeqsUpTo(Items(m), n) \ {<<>>}]

\* documents of one outermost list of at most n items, each with at most one
\* nested list of at most m items, and of one list of one item per glyph
ListDocs(n, m) ==
    {<<l>> : l \in Lists(n, m)}
    \cup {<<[tag |-> t, items |-> <<[text |-> <<g, "x">>, sub |-> <<>>]>>]>> :
              t \in ListTags, g \in unicodeBullets}

InitHtml ==
    /\ \/ htmlDoc \in HtmlDocs(MaxCellsPerRow, MaxRows) /\ htmlLists = <<>>
       \/ htmlDoc = <<>> /\ htmlLists \in ListDocs(MaxItems, MaxSubItems)
    /\ processedDoc = <<>>
    /\ processedLists = <<>>
    /\ pcHtml = "parsed"

\* processHtml on the parsed tree
ProcessHtml ==
    /\ pcHtml = "parsed"
    /\ processedDoc' = [i \in 1..Len(htmlDoc) |-> ProcessTable(htmlDoc[i])]
    /\ processedLists' = ProcessLists(htmlLists)
    /\ pcHtml' = "done"
    /\ UNCHANGED <<htmlDoc, htmlLists>>

NextHtml == ProcessHtml /\ UNCHANGED <<procVars, decVars, normVars, srvVars>>

(***************************************************************************)
(* server.ts: POST /raw and POST /api/convert                              *)
(*                                                                         *)
(* A handler runs from the arrival of the request up to a response or up   *)
(* to `await convert(req.file.path)`, and from the settling of that        *)
(* promise to its end.  convert is the one modelled above: the handler     *)
(* occupies a slot of `calls`.                                             *)
(***************************************************************************)
NoFile == [present |-> FALSE, originalname |-> <<>>, path |-> <<>>]

\* multer({ dest: os.tmpdir() }): the upload is stored under a random
\* hexadecimal name
MulterPath == <<"/", "t", "m", "p", "/", "4", "e">>

UploadNames ==
    { <<"a", ".", "d", "o", "c", "x">>, <<"a", ".", "D", "o", "c">>,
      <<".", "d", "o", "c">> }

\* req.file after upload.single(...)
Uploads ==
    {NoFile} \cup
    {[present |-> TRUE, originalname |-> n, path |-> MulterPath] : n \in UploadNames}

\* !req.file || typeof req.file !== 'object' || !req.file.path ||
\* !req.file.originalname
MissingFile(file) ==
    ~file.present \/ file.path = <<>> \/ file.originalname = <<>>

JsonResponse(status, success, error, markdown) ==
    [status |-> status, type |-> "application/json",
     body |-> [success |-> success, error |-> error, markdown |-> markdown]]

\* res.status(status).send(body); with .type('text/plain') when plain
TextResponse(status, plain, body) ==
    [status |-> status,
     type |-> IF plain THEN "text/plain" ELSE "text/html",
     body |-> body]

\* the catch block of /api/convert with every error re-thrown
ApiCatch_Rethrows(result) == [sent |-> <<>>, rethrown |-> TRUE]

\* the catch block of /api/convert, lines 157-173: what it sends, and
\* whether it re-throws
ApiCatch(result) ==
    IF result = "UnsupportedFileError"
    THEN [sent |-> <<JsonResponse(400, FALSE, "Conversion failed", <<>>)>>,
          rethrown |-> FALSE]
    ELSE [sent |-> <<JsonResponse(500, FALSE, "Internal server error", <<>>)>>,
          rethrown |-> FALSE]

\* the catch block of /raw, server.ts lines 98-104
RawCatch(result) ==
    IF result = "UnsupportedFileError"
    THEN [sent |-> <<TextResponse(400, FALSE, "escapeHtml(error.message)")>>,
          rethrown |-> FALSE]
    ELSE [sent |-> <<>>, rethrown |-> TRUE]

\* what the router does with a handler whose promise rejected: it answers
\* through the default error handler, or it lets the promise go
UnhandledRejection(forwards) ==
    IF forwards THEN <<TextResponse(500, FALSE, "Internal Server Error")>>
    ELSE <<>>

MaxRequests == 2

Requests == 1..MaxRequests

IdleRequest ==
    [pc |-> "none", route |-> "none", file |-> NoFile, call |-> Null,
     converts |-> 0, responses |-> <<>>, rejected |-> FALSE]

SrvIdle ==
    /\ requests = <<>>
    /\ forwardsRejections = FALSE

InitServer ==
    /\ InitProc
    /\ nodeEnv = TRUE
    /\ requests = [r \in Requests |-> IdleRequest]
    /\ forwardsRejections \in BOOLEAN

\* a handler from the arrival of request r to its first response or to the
\* await: rejected is the response to a rejected file name
HandlerStart(r, route, file, missing, rejected) ==
    /\ requests[r].pc = "none"
    /\ \A q \in 1..(r - 1) : requests[q].pc # "none"
    /\ IF MissingFile(file)
       THEN /\ requests' = [requests EXCEPT ![r] =
                    [@ EXCEPT !.pc = "done", !.route = route, !.file = file,
                              !.responses = <<missing>>]]
            /\ UNCHANGED procVars
       ELSE IF validateFileExtension(file.originalname, nodeEnv)
       THEN /\ requests' = [requests EXCEPT ![r] =
                    [@ EXCEPT !.pc = "done", !.route = route, !.file = file,
                              !.responses = <<rejected>>]]
            /\ UNCHANGED procVars
       ELSE \E c \in Calls :
                /\ ConvertStart(c, PathInput(file.path), {})
                /\ requests' = [requests EXCEPT ![r] =
                       [@ EXCEPT !.pc = "awaiting", !.route = route,
                                 !.file = file, !.call = c,
                                 !.converts = @ + 1]]
    /\ UNCHANGED forwardsRejections

\* server.ts lines 67-96
RawStart(r, file) ==
    HandlerStart(r, "/raw", file,
        TextResponse(400, FALSE, "You must upload a document to convert."),
        TextResponse(400, FALSE, "escapeHtml(error.message)"))

\* server.ts lines 109-148
ApiStart(r, file) ==
    HandlerStart(r, "/api/convert", file,
        JsonResponse(400, FALSE, "You must upload a file to convert.", <<>>),
        JsonResponse(400, FALSE, "Invalid file type", <<>>))

\* a handler from the settling of convert's promise to its end
HandlerResume(r, route, success, catch) ==
    /\ requests[r].pc = "awaiting"
    /\ requests[r].route = route
    /\ calls[requests[r].call].pc = "done"
    /\ LET outcome == IF calls[requests[r].call].result = "ok"
                      THEN [sent |-> <<success>>, rethrown |-> FALSE]
                      ELSE catch
       IN  requests' = [requests EXCEPT ![r] =
               [@ EXCEPT !.pc = "done",
                         !.rejected = outcome.rethrown,
                         !.responses =
                             outcome.sent \o
                             (IF outcome.rethrown
                              THEN UnhandledRejection(forwardsRejections)
                              ELSE <<>>)]]
    /\ UNCHANGED <<procVars, forwardsRejections>>

\* server.ts lines 94-104
RawResume(r) ==
    HandlerResume(r, "/raw",
        TextResponse(200, TRUE, calls[requests[r].call].markdown),
        RawCatch(calls[requests[r].call].result))

\* server.ts lines 150-173
ApiResume(r) ==
    HandlerResume(r, "/api/convert",
        JsonResponse(200, TRUE, "", calls[requests[r].call].markdown),
        ApiCatch(calls[requests[r].call].result))

NextServer ==
    \/ \E r \in Requests, file \in Uploads :
           RawStart(r, file) /\ UNCHANGED <<decVars, normVars, htmlVars>>
    \/ \E r \in Requests, file \in Uploads :
           ApiStart(r, file) /\ UNCHANGED <<decVars, normVars, htmlVars>>
    \* convert settles: it returns, its extraction rejects, or its last call
    \* throws
    \/ \E c \in Calls, failAt \in {0, 1, Len(ConvertStatements)} :
           /\ ConvertResume(c, failAt)
           /\ UNCHANGED <<decVars, normVars, htmlVars, srvVars>>
    \/ \E r \in Requests :
           RawResume(r) /\ UNCHANGED <<decVars, normVars, htmlVars>>
    \/ \E r \in Requests :
           ApiResume(r) /\ UNCHANGED <<decVars, normVars, htmlVars>>

(***************************************************************************)
(* Idle values of the groups a specification does not use                  *)
(***************************************************************************)
ProcIdle ==
    /\ turndownServiceInstance = Null
    /\ services = <<>>
    /\ calls = <<>>
    /\ nodeEnv = TRUE

HtmlIdle ==
    /\ htmlDoc = <<>>
    /\ processedDoc = <<>>
    /\ htmlLists = <<>>
    /\ processedLists = <<>>
    /\ pcHtml = "idle"

\* the server process: the path module is there
Init == InitProc /\ nodeEnv = TRUE /\ DecodeIdle /\ NormIdle /\ HtmlIdle /\ SrvIdle

Spec == Init /\ [][Next]_vars

\* one call of convert on any path, with or without the path module
InitPaths == InitProc /\ nodeEnv \in BOOLEAN /\ DecodeIdle /\ NormIdle /\ HtmlIdle /\ SrvIdle

SpecPaths == InitPaths /\ [][NextPaths]_vars

InitDecodeSpec == InitDecode /\ ProcIdle /\ NormIdle /\ HtmlIdle /\ SrvIdle

SpecDecode == InitDecodeSpec /\ [][NextDecode]_vars

InitNormSpec == InitNorm /\ ProcIdle /\ DecodeIdle /\ HtmlIdle /\ SrvIdle

SpecNorm == InitNormSpec /\ [][NextNorm]_vars

InitHtmlSpec == InitHtml /\ ProcIdle /\ DecodeIdle /\ NormIdle /\ SrvIdle

SpecHtml == InitHtmlSpec /\ [][NextHtml]_vars

InitServerSpec == InitServer /\ DecodeIdle /\ NormIdle /\ HtmlIdle

SpecServer == InitServerSpec /\ [][NextServer]_vars

(***************************************************************************)
(* Properties of the text normalizer                                       *)
(***************************************************************************)
\* C1: the text normalizer is idempotent: applying it to its own result
\* returns that result.
NormalizerIdempotent ==
    Len(normRuns) >= 2 => normRuns[2] = normRuns[1]

(***************************************************************************)
(* Properties of decodeHtmlEntities                                        *)
(***************************************************************************)
\* C6: the loop body runs at most 3 times, and never again after a run that
\* left the text unchanged.
DecodeBoundedPasses ==
    /\ passes <= 3
    /\ idlePasses = 0
    /\ (pcDecode = "loop" /\ ~lastPassChanged) => ~LoopGuard(hasEntities, maxIterations)

\* C6 witness: the cap stops the loop while references are still left to decode.
DecodeCapReached ==
    /\ pcDecode = "done"
    /\ passes = 3
    /\ ReplaceEntities(decoded) # decoded

\* C7: on an input without "&" the loop body never runs and the result is
\* the input.
DecodeNoAmpNoOp ==
    (pcDecode \in {"loop", "done"} /\ ~Includes(html, "&"))
        => (decoded = html /\ passes = 0)

\* C7 witness: a finished call on a non-empty input without "&".
DecodeNoAmpDone ==
    /\ pcDecode = "done"
    /\ ~Includes(html, "&")
    /\ Includes(html, ";")
    /\ Includes(html, "<")

\* the character with code point n (String.fromCodePoint), n = [hi, lo]
CodePointChar(n) ==
    IF n.hi = 0 THEN CodeUnit(n.lo) ELSE "U" \o ToString(n.hi * TwoTo16 + n.lo)

\* the input is exactly one reference &#<ds>; or &#x<ds>; to a code point
\* of 0..0x10FFFF
IsDecimalReference(s) ==
    /\ EntityEnd(s, 1) = Len(s)
    /\ NumericMatch(s) # <<>>
    /\ ParseInt(NumericMatch(s), 10).hi <= 16

IsHexReference(s) ==
    /\ Len(s) >= 1
    /\ EntityEnd(s, 1) = Len(s)
    /\ HexMatch(s) # <<>>
    /\ ParseInt(HexMatch(s), 16).hi <= 16

\* C8: a decimal or hexadecimal reference is decoded to the character whose
\* code point it names, for every code point up to 0x10FFFF.
NumericReferenceDecodesToCodePoint ==
    pcDecode = "done" =>
        /\ (Len(html) >= 1 /\ IsDecimalReference(html))
               => decoded = <<CodePointChar(ParseInt(NumericMatch(html), 10))>>
        /\ (Len(html) >= 1 /\ IsHexReference(html))
               => decoded = <<CodePointChar(ParseInt(HexMatch(html), 16))>>

\* C9: decoding never adds a "<" or ">" to the text.
NoNewAngleBrackets ==
    pcDecode = "done" =>
        /\ Count(decoded, "<") = Count(html, "<")
        /\ Count(decoded, ">") = Count(html, ">")

(***************************************************************************)
(* Properties of convert and the renderer singleton                        *)
(***************************************************************************)
SharedServices == {i \in 1..Len(services) : services[i].shared}

\* C2: at most one renderer is ever constructed for the singleton slot; once
\* constructed it stays in the slot, and every default-options call that
\* reached rendering used it.
RendererSingleton ==
    /\ Cardinality(SharedServices) <= 1
    /\ SharedServices # {} => turndownServiceInstance \in SharedServices
    /\ turndownServiceInstance # Null => turndownServiceInstance \in SharedServices
    /\ \A c \in Calls :
           (calls[c].options = {} /\ calls[c].service # Null)
               => calls[c].service = turndownServiceInstance

\* C2 witness: two default-options conversions have rendered, with one
\* renderer constructed between them.
TwoDefaultCallsShareRenderer ==
    \E c, d \in Calls :
        /\ c # d
        /\ calls[c].options = {} /\ calls[c].result = "ok"
        /\ calls[d].options = {} /\ calls[d].result = "ok"
        /\ calls[c].service = calls[d].service
        /\ calls[c].service = turndownServiceInstance
        /\ Len(services) = 1

\* the step in which call c, made with non-empty render options, runs from
\* its await to its end
CustomCallRuns(c) ==
    /\ calls[c].pc = "awaiting"
    /\ calls'[c].pc = "done"
    /\ calls[c].options # {}

\* C3: a conversion with non-empty render options leaves the singleton slot
\* as it was, and renders with an instance constructed in that call that is
\* not the singleton.
CustomOptionsLeaveSingleton ==
    [][\A c \in Calls :
          CustomCallRuns(c) =>
              /\ turndownServiceInstance' = turndownServiceInstance
              /\ calls'[c].service # Null =>
                     /\ calls'[c].service # turndownServiceInstance'
                     /\ calls'[c].service \notin 1..Len(services)
                     /\ calls'[c].service \in 1..Len(services')
                     /\ ~services'[calls'[c].service].shared
                     /\ SubSeq(services', 1, Len(services)) = services]_vars

\* C3 witness: a custom-options conversion has rendered while the singleton
\* was present.
CustomCallRenderedBesideSingleton ==
    \E c \in Calls :
        /\ calls[c].options # {}
        /\ calls[c].result = "ok"
        /\ turndownServiceInstance # Null
        /\ turndownServiceInstance < calls[c].service

EndsWithDoc(p) ==
    /\ Len(p) >= 4
    /\ ToLowerCase(SubSeq(p, Len(p) - 3, Len(p))) = <<".", "d", "o", "c">>

\* C4: a string input ending in `.doc` (in any letter case) fails with
\* UnsupportedFileError without extraction being invoked; any other string
\* input passes validation and is handed to extraction.
DocInputsRejected ==
    \A c \in Calls :
        (calls[c].pc # "idle" /\ calls[c].input.kind = "path") =>
            IF EndsWithDoc(calls[c].input.path)
            THEN calls[c].result = "UnsupportedFileError" /\ ~calls[c].extracted
            ELSE calls[c].extracted /\ calls[c].result # "UnsupportedFileError"

ClaimedStages ==
    <<"mammoth.convertToHtml", "processHtml", "decodeHtmlEntities", "turndown",
      "convertNumberedListsToBullets", "normalizeText", "lint">>

\* C5: the stages run in the order extraction, processHtml, entity decode,
\* render, numbered-to-bullet, normalizeText, lint, each at most once and each
\* on the previous stage's output; a failing stage is the last one run and
\* its failure is the call's result.
ConvertStagesInOrder ==
    \A c \in Calls :
        LET t == calls[c].trace
        IN  /\ Len(t) <= Len(ClaimedStages)
            /\ \A k \in 1..Len(t) :
                   /\ t[k].fn = ClaimedStages[k]
                   /\ t[k].consumed = <<"input">> \o SubSeq(ClaimedStages, 1, k - 1)
            /\ calls[c].result = "ok" =>
                   /\ Len(t) = Len(ClaimedStages)
                   /\ calls[c].markdown = <<"input">> \o ClaimedStages
            /\ calls[c].result \notin {"none", "ok", "UnsupportedFileError"} =>
                   /\ t # <<>>
                   /\ t[Len(t)].fn = calls[c].result
                   /\ calls[c].markdown = <<>>
            /\ calls[c].result = "UnsupportedFileError" => t = <<>>

\* C5 witness: one conversion ran all its stages and another was aborted by
\* a failing render.
OneCallCompleteOneAborted ==
    \E c, d \in Calls :
        /\ calls[c].result = "ok"
        /\ Len(calls[c].trace) = 7
        /\ calls[d].result = "turndown"
        /\ Len(calls[d].trace) = 4

(***************************************************************************)
(* Properties of processHtml                                               *)
(***************************************************************************)
HeaderRows(table) == {r \in 1..Len(table) : HasTh(table[r])}

\* a row with a cell whose text is not blank
PopulatedRow(row) == \E k \in 1..Len(row) : Trim(row[k].text) # <<>>

\* C10: after processHtml every table has exactly one header row, and that
\* row is a populated one whenever the table has a populated row.
OneHeaderRowPerTable ==
    pcHtml = "done" =>
        \A i \in 1..Len(htmlDoc) :
            LET out == processedDoc[i]
            IN  /\ Cardinality(HeaderRows(out)) = 1
                /\ (\E r \in 1..Len(htmlDoc[i]) : PopulatedRow(htmlDoc[i][r]))
                       => \A r \in HeaderRows(out) : PopulatedRow(out[r])

\* a table whose first row has no header cell and is empty
BlankFirstRow(table) ==
    /\ table # <<>>
    /\ ~HasTh(table[1])
    /\ IsEmptyRow(table[1])

\* out is the table without its first row, the cells of its second row all
\* header cells with their texts kept, and its later rows as they were
NextRowPromoted(table, out) ==
    /\ Len(out) = Len(table) - 1
    /\ Len(out[1]) = Len(table[2])
    /\ \A k \in 1..Len(out[1]) :
           out[1][k].tag = "th" /\ out[1][k].text = table[2][k].text
    /\ \A r \in 2..Len(out) : out[r] = table[r + 1]

AllItems == {ItemPaths(htmlLists)[n] : n \in 1..Len(ItemPaths(htmlLists))}

\* C12: processHtml never alters an item of an ordered list: every li whose
\* parent list is an ol, wherever that ol sits, has in the output the inner
\* markup it had in the input, even when it starts with a bullet glyph.
\* Stated on the text the item starts with, the part of its inner markup
\* that is its own.
OrderedItemsUntouched ==
    pcHtml = "done" =>
        \A p \in AllItems :
            ParentList(htmlLists, p).tag = "ol" =>
                ItemAt(processedLists, p).text = ItemAt(htmlLists, p).text

\* the text starts with optional whitespace and a bullet glyph
StartsWithBullet(text) ==
    TrimStart(text) # <<>> /\ Head(TrimStart(text)) \in unicodeBullets

\* C16: every li whose parent list is a ul is stripped on its own, also when
\* it sits in an item that was stripped: a text that starts with optional
\* whitespace and a bullet glyph loses that whitespace, the glyph and the
\* whitespace after it, and any other text is unchanged.
EveryUnorderedItemStripped ==
    pcHtml = "done" =>
        \A p \in AllItems :
            ParentList(htmlLists, p).tag = "ul" =>
                ItemAt(processedLists, p).text =
                    IF StartsWithBullet(ItemAt(htmlLists, p).text)
                    THEN TrimStart(Tail(TrimStart(ItemAt(htmlLists, p).text)))
                    ELSE ItemAt(htmlLists, p).text

(***************************************************************************)
(* Properties of the two steps of the text normalizer                      *)
(***************************************************************************)
\* the lines of s, "\n" being the separator
RECURSIVE SplitLines(_)
SplitLines(s) ==
    LET breaks == {i \in 1..Len(s) : s[i] = "\n"}
    IN  IF breaks = {} THEN <<s>>
        ELSE LET n == CHOOSE i \in breaks : \A j \in breaks : i <= j
             IN  <<SubSeq(s, 1, n - 1)>> \o SplitLines(SubSeq(s, n + 1, Len(s)))

RECURSIVE JoinLines(_)
JoinLines(lines) ==
    IF Len(lines) = 1 THEN lines[1]
    ELSE lines[1] \o <<"\n">> \o JoinLines(Tail(lines))

\* a line of leading whitespace, digits, a period and a space becomes the
\* leading whitespace, "- " and the rest; any other line is kept
BulletLine(line) ==
    LET w == ClassRunEnd(line, 1, SpaceChar)
        d == ClassRunEnd(line, w + 1, Digit)
    IN  IF /\ d >= w + 1
           /\ d + 2 <= Len(line)
           /\ line[d + 1] = "."
           /\ line[d + 2] \in SpaceChar
        THEN SubSeq(line, 1, w) \o <<"-", " ">> \o SubSeq(line, d + 3, Len(line))
        ELSE line

\* C13: convertNumberedListsToBullets rewrites exactly the lines that begin
\* with optional whitespace, digits, a period and a space, each into its
\* leading whitespace, "- " and the rest of the line; every other line is
\* unchanged and the number of lines is preserved.
NumberedLinesRewrittenLineByLine ==
    bulletRuns # <<>> =>
        /\ bulletRuns[1] =
               JoinLines([n \in 1..Len(SplitLines(md)) |->
                             BulletLine(SplitLines(md)[n])])
        /\ Count(bulletRuns[1], "\n") = Count(md, "\n")

\* the character-wise mapping of the claim
TypoChar(c) ==
    CASE c \in {"u160", "u8199", "u8239"} -> <<" ">>
      [] c \in {"u8288", "u65279"} -> <<>>
      [] c \in {"u8220", "u8221"} -> <<"\"">>
      [] c \in {"u8216", "u8217"} -> <<"'">>
      [] c \in {"u8211", "u8212"} -> <<"-">>
      [] OTHER -> <<c>>

ElevenCodePoints ==
    {"u160", "u8199", "u8239", "u8288", "u65279",
     "u8220", "u8221", "u8216", "u8217", "u8211", "u8212"}

\* the ASCII characters that occur in the inputs
AsciiChars == {"1", ".", " ", "\n", "x", "a", "\"", "'", "-"}

\* C14: normalizeText maps its input character by character (U+00A0, U+2007
\* and U+202F to a space, U+2060 and U+FEFF to nothing, the double quotes to
\* ", the single quotes to ', the dashes to -, any other character to
\* itself); its output holds none of the eleven code points, and an
\* all-ASCII input is returned unchanged.
NormalizeTextIsCharMap ==
    \A r \in 1..Len(normRuns) :
        LET arg == bulletRuns[r]
            out == normRuns[r]
        IN  /\ out = Flatten([i \in 1..Len(arg) |-> TypoChar(arg[i])])
            /\ \A i \in 1..Len(out) : out[i] \notin ElevenCodePoints
            /\ (\A i \in 1..Len(arg) : arg[i] \in AsciiChars) => out = arg

\* normalizeText has deleted a word joiner and has turned a right single
\* quote into an apostrophe
WordJoinerAndQuoteNormalized ==
    /\ normRuns # <<>>
    /\ bulletRuns[1] = <<"u8288", "u8217">>
    /\ normRuns[1] = <<"'">>

(***************************************************************************)
(* Properties of the HTTP handlers                                         *)
(***************************************************************************)
\* the name is a non-empty base name followed by ".doc" in any letter case
HasDocExtension(name) ==
    /\ Len(name) > 4
    /\ name[Len(name) - 4] # "/"
    /\ ToLowerCase(SubSeq(name, Len(name) - 3, Len(name))) = <<".", "d", "o", "c">>

RawAnswersOnce ==
    \A r \in Requests :
        (/\ requests[r].route = "/raw"
         /\ requests[r].file.present
         /\ ~HasDocExtension(requests[r].file.originalname)) =>
            /\ Len(requests[r].responses) <= 1
            /\ requests[r].converts = 1
            /\ requests[r].pc = "done" =>
                   /\ Len(requests[r].responses) = 1
                   /\ LET res == requests[r].responses[1]
                          result == calls[requests[r].call].result
                      IN  /\ result = "ok" =>
                                 /\ res.status = 200
                                 /\ res.type = "text/plain"
                                 /\ res.body = calls[requests[r].call].markdown
                          /\ result \notin {"ok", "UnsupportedFileError"} =>
                                 res.status = 500

====
